---------------------------- MODULE Spec2Model ----------------------------
(***************************************************************************)
(* Lazy image loading of src/index.js: the per-image load operation        *)
(* (loadImage / applyDataAttributes), the shared IntersectionObserver      *)
(* (ensureObserver), registration (setupImages), the mode switch           *)
(* (toggleMode), the bulk load (loadAll) and the disconnect control.       *)
(*                                                                         *)
(* The document is a record d; every function of the script is an operator *)
(* from documents to documents, and every event (a click, an intersection  *)
(* entry, the image's load or error event) is one action that applies the  *)
(* handler to the current document.  The script is single threaded: a      *)
(* handler and the promise reactions it releases run to completion before  *)
(* the next event is taken, so each is one atomic step.                    *)
(***************************************************************************)
EXTENDS Integers, Sequences, FiniteSets

\* Number of img.lazy elements in the gallery.
NumImgs == 2
\* Total number of loadImage calls in a run.
MaxLoads == 2
\* Number of loadAll calls in a run.
MaxLoadAll == 1
\* Number of IntersectionObserver instances constructed in a run.
MaxObservers == 2

Imgs == 1..NumImgs

VARIABLES
  img,          \* per image: dataset, attributes, class, listeners, promises
  btn,          \* per card: the .load-now button
  io,           \* the script's `io`: 0 for null, else the observer's number
  observers,    \* every IntersectionObserver constructed so far: its targets
  currentMode,  \* the script's `currentMode`
  modeLabel,    \* modeLabel.textContent
  batches       \* the loadAll calls: the promises each awaits, and its state

vars == <<img, btn, io, observers, currentMode, modeLabel, batches>>

\* The document as one value, so that handlers compose.
Doc ==
  [img |-> img, btn |-> btn, io |-> io, observers |-> observers,
   currentMode |-> currentMode, modeLabel |-> modeLabel, batches |-> batches]

Apply(d) ==
  /\ img' = d.img
  /\ btn' = d.btn
  /\ io' = d.io
  /\ observers' = d.observers
  /\ currentMode' = d.currentMode
  /\ modeLabel' = d.modeLabel
  /\ batches' = d.batches

---------------------------------------------------------------------------
(* applyDataAttributes and loadImage, on one image element el.             *)

\* img.dataset.load || 'scroll'
loadModeOf(el) == IF el.dataLoad = "" THEN "scroll" ELSE el.dataLoad

\* The latest loadImage call on el has its load and its error listener on.
armed(el) ==
  /\ el.ops # <<>>
  /\ Len(el.ops) \in el.onLoad
  /\ Len(el.ops) \in el.onError

\* Copies the pending descriptors into the attributes the browser fetches
\* from.  dataSrc stands for what the markup declares (data-src, data-srcset,
\* data-sizes, the data-srcset of the picture's sources): the one call copies
\* all that are present and skips the rest.  Writing them starts the
\* browser's fetch (fetch = TRUE until the load or error event is
\* dispatched); commits counts the calls, and unarmed records a write that
\* started a fetch while the listeners of the call were not yet attached.
applyDataAttributes(el) ==
  [el EXCEPT !.src = IF el.dataSrc # "" THEN el.dataSrc ELSE @,
             !.fetch = IF el.dataSrc # "" THEN TRUE ELSE @,
             !.unarmed = @ \/ (el.dataSrc # "" /\ ~armed(el)),
             !.commits = @ + 1]

\* The promise a loadImage call returns, as it is when the executor returns.
newPromise(st, by, imm) == [st |-> st, by |-> by, imm |-> imm]

\* loadImage without the test of class 'loaded'
loadImageNoEarlyReturn(el, by) ==
  LET k == Len(el.ops) + 1
  IN applyDataAttributes(
       [el EXCEPT !.ops = Append(@, newPromise("pending", by, FALSE)),
                  !.onLoad = @ \cup {k},
                  !.onError = @ \cup {k}])

\* loadImage with applyDataAttributes moved before the addEventListener calls
loadImageCommitFirst(el, by) ==
  IF el.loaded
  THEN [el EXCEPT !.ops = Append(@, newPromise("resolved", by, TRUE))]
  ELSE LET c == applyDataAttributes(el)
           k == Len(c.ops) + 1
       IN [c EXCEPT !.ops = Append(@, newPromise("pending", by, FALSE)),
                    !.onLoad = @ \cup {k},
                    !.onError = @ \cup {k}]

\* loadImage(img): the early return on class 'loaded', else both listeners
\* and then the commit.  by names the caller: "btn", "io" or "all".
loadImage(el, by) ==
  IF el.loaded
  THEN [el EXCEPT !.ops = Append(@, newPromise("resolved", by, TRUE))]
  ELSE LET k == Len(el.ops) + 1
       IN applyDataAttributes(
            [el EXCEPT !.ops = Append(@, newPromise("pending", by, FALSE)),
                       !.onLoad = @ \cup {k},
                       !.onError = @ \cup {k}])

\* cleanup that clears every listener of the element, not only call k's
cleanupAll(el, k) ==
  [el EXCEPT !.onLoad = {}, !.onError = {}]

\* cleanup that removes the load listener and forgets the error listener
cleanupLoadOnly(el, k) ==
  [el EXCEPT !.onLoad = @ \ {k}]

\* cleanup of call k: removeEventListener for both of its handlers
cleanup(el, k) ==
  [el EXCEPT !.onLoad = @ \ {k}, !.onError = @ \ {k}]

\* resolve() / reject(e): a promise settles once
settle(el, k, st) ==
  [el EXCEPT !.ops[k].st = IF @ = "pending" THEN st ELSE @]

\* onLoad that leaves the .skeleton wrapper as it is
onLoadNoSkeleton(el, k) ==
  settle(cleanup([el EXCEPT !.loaded = TRUE], k), k, "resolved")

\* onLoad of call k
onLoad(el, k) ==
  LET marked == [el EXCEPT !.loaded = TRUE,
                           !.skel = IF @ = "none" THEN @ ELSE "loaded"]
  IN settle(cleanup(marked, k), k, "resolved")

\* onError that marks the image and its wrapper as onLoad does
onErrorMarksLoaded(el, k) ==
  LET marked == [el EXCEPT !.loaded = TRUE,
                           !.skel = IF @ = "none" THEN @ ELSE "loaded"]
  IN settle(cleanup(marked, k), k, "rejected")

\* onError of call k
onError(el, k) == settle(cleanup(el, k), k, "rejected")

\* { once: true }: the browser removes a listener of kind ev when it invokes it
removeOnce(el, ev, k) ==
  IF ev = "load" THEN [el EXCEPT !.onLoad = @ \ {k}]
  ELSE [el EXCEPT !.onError = @ \ {k}]

RECURSIVE dispatch(_, _, _)
\* The browser dispatches one event of kind ev ("load" or "error") to the
\* listeners of that kind in ks, in registration order; a listener removed
\* by an earlier one is not invoked.
dispatch(el, ev, ks) ==
  IF ks = {} THEN el
  ELSE LET k == CHOOSE x \in ks : \A y \in ks : x <= y
           registered == IF ev = "load" THEN k \in el.onLoad
                                        ELSE k \in el.onError
           after == IF ~registered THEN el
                    ELSE IF ev = "load" THEN onLoad(removeOnce(el, ev, k), k)
                    ELSE onError(removeOnce(el, ev, k), k)
       IN dispatch(after, ev, ks \ {k})

\* The image's load or error event: the end of the fetch in flight.
fire(el, ev) ==
  dispatch([el EXCEPT !.fetch = FALSE], ev,
           IF ev = "load" THEN el.onLoad ELSE el.onError)

---------------------------------------------------------------------------
(* Promise reactions released by a change of the images from old to new.   *)

\* The continuation of the button's click handler after `await loadImage`.
btnReaction(b, old, new) ==
  LET done == {k \in DOMAIN new.ops : new.ops[k].by = "btn"
                  /\ (k \notin DOMAIN old.ops \/ old.ops[k].st = "pending")
                  /\ new.ops[k].st # "pending"}
  IN IF \E k \in done : new.ops[k].st = "rejected"
     THEN [b EXCEPT !.text = "retry", !.disabled = FALSE]
     ELSE IF done # {} THEN [b EXCEPT !.text = "done"]
     ELSE b

\* Promise.any in place of allSettled: done with the first settled promise
anySettled(sts) == IF sts \subseteq {"pending"} /\ sts # {} THEN "pending" ELSE "fulfilled"

\* Promise.all in place of allSettled: rejects with the first rejection
promiseAll(sts) ==
  IF "rejected" \in sts THEN "rejected"
  ELSE IF "pending" \in sts THEN "pending" ELSE "fulfilled"

\* Promise.allSettled over the states sts of the awaited promises.
allSettled(sts) == IF "pending" \in sts THEN "pending" ELSE "fulfilled"

batchState(d, b) == allSettled({d.img[p[1]].ops[p[2]].st : p \in b.sel})

\* Everything that runs in the microtask checkpoint after a handler.
reactions(old, d) ==
  [d EXCEPT !.btn = [e \in Imgs |-> btnReaction(d.btn[e], old.img[e], d.img[e])],
            !.batches = [i \in DOMAIN d.batches |->
                           [d.batches[i] EXCEPT !.st = batchState(d, d.batches[i])]]]

---------------------------------------------------------------------------
(* The shared IntersectionObserver.                                        *)

NoTargets == [e \in Imgs |-> 0]

\* ensureObserver without `if (io) return io`
ensureObserverAlwaysNew(d) ==
  [d EXCEPT !.io = Len(d.observers) + 1,
            !.observers = Append(@, NoTargets)]

\* ensureObserver(): the live instance, or a new one assigned to io
ensureObserver(d) ==
  IF d.io # 0 THEN d
  ELSE [d EXCEPT !.io = Len(d.observers) + 1,
                 !.observers = Append(@, NoTargets)]

\* observe that adds the target again when it is already observed
observeAgain(d, e) ==
  [d EXCEPT !.observers[d.io][e] = @ + 1]

\* io.observe(img): a target already observed is not added again
observe(d, e) ==
  [d EXCEPT !.observers[d.io][e] = IF @ > 0 THEN @ ELSE 1]

\* io.unobserve(img)
unobserve(d, e) == [d EXCEPT !.observers[d.io][e] = 0]

\* The observer's callback without the test of the image's data-load
ioCallbackNoModeCheck(d, e) ==
  unobserve([d EXCEPT !.img[e] = loadImage(@, "io")], e)

\* The observer's callback for one intersecting entry whose target is e.
ioCallback(d, e) ==
  IF loadModeOf(d.img[e]) # "scroll" THEN d
  ELSE unobserve([d EXCEPT !.img[e] = loadImage(@, "io")], e)

\* A disconnect handler that also detaches the listeners of the loads
disconnectAndAbort(d) ==
  IF d.io = 0 THEN d
  ELSE [d EXCEPT !.observers[d.io] = NoTargets, !.io = 0,
                 !.img = [e \in Imgs |->
                            [d.img[e] EXCEPT !.onLoad = {}, !.onError = {}]]]

\* The click handler of disconnectObserverBtn.
disconnect(d) ==
  IF d.io = 0 THEN d
  ELSE [d EXCEPT !.observers[d.io] = NoTargets, !.io = 0]

---------------------------------------------------------------------------
(* setupImages, the button's click handler, toggleMode, loadAll.           *)

\* btn?.setAttribute('hidden', '') / btn?.removeAttribute('hidden')
setHidden(d, e, h) ==
  IF d.btn[e].has THEN [d EXCEPT !.btn[e].hidden = h] ELSE d

\* The body of setupImages' forEach for image e.
setupImage(d, e) ==
  IF loadModeOf(d.img[e]) = "click"
  THEN LET shown == setHidden(d, e, FALSE)
       IN IF shown.btn[e].has THEN [shown EXCEPT !.btn[e].bound = TRUE]
          ELSE shown
  ELSE observe(ensureObserver(setHidden(d, e, TRUE)), e)

RECURSIVE setupImages(_, _)
setupImages(d, e) ==
  IF e > NumImgs THEN d ELSE setupImages(setupImage(d, e), e + 1)

\* The click listener setupImages binds, up to the await.
btnClick(d, e) ==
  [d EXCEPT !.btn[e].disabled = TRUE,
            !.btn[e].text = "loading",
            !.img[e] = loadImage(@, "btn")]

\* A click event on the button of card e: the browser invokes the listener
\* if setupImages added one, and nothing else listens.
clickEvent(d, e) == IF d.btn[e].bound THEN btnClick(d, e) ELSE d

\* toggleMode's forEach body without io.unobserve in click mode
toggleImageNoUnobserve(d, e) ==
  LET d1 == [d EXCEPT !.img[e].dataLoad = d.currentMode]
  IN IF d1.img[e].loaded THEN d1
     ELSE IF d1.currentMode = "scroll"
     THEN observe(ensureObserver(setHidden(d1, e, TRUE)), e)
     ELSE setHidden(d1, e, FALSE)

\* toggleMode's forEach body without the return on class 'loaded'
toggleImageNoSkip(d, e) ==
  LET d1 == [d EXCEPT !.img[e].dataLoad = d.currentMode]
  IN IF d1.currentMode = "scroll"
     THEN observe(ensureObserver(setHidden(d1, e, TRUE)), e)
     ELSE LET shown == setHidden(d1, e, FALSE)
          IN IF shown.io # 0 THEN unobserve(shown, e) ELSE shown

\* toggleMode's forEach body that resets the image for the new mode
toggleImageReset(d, e) ==
  LET d1 == [d EXCEPT !.img[e].dataLoad = d.currentMode,
                      !.img[e].loaded = FALSE]
  IN IF d1.currentMode = "scroll"
     THEN observe(ensureObserver(setHidden(d1, e, TRUE)), e)
     ELSE LET shown == setHidden(d1, e, FALSE)
          IN IF shown.io # 0 THEN unobserve(shown, e) ELSE shown

\* The body of toggleMode's forEach for image e.
toggleImage(d, e) ==
  LET d1 == [d EXCEPT !.img[e].dataLoad = d.currentMode]
  IN IF d1.img[e].loaded THEN d1
     ELSE IF d1.currentMode = "scroll"
     THEN observe(ensureObserver(setHidden(d1, e, TRUE)), e)
     ELSE LET shown == setHidden(d1, e, FALSE)
          IN IF shown.io # 0 THEN unobserve(shown, e) ELSE shown

RECURSIVE toggleImages(_, _)
toggleImages(d, e) ==
  IF e > NumImgs THEN d ELSE toggleImages(toggleImage(d, e), e + 1)

toggleMode(d, isScroll) ==
  toggleImages(
    [d EXCEPT !.currentMode = IF isScroll THEN "scroll" ELSE "click",
              !.modeLabel = IF isScroll THEN "auto" ELSE "onclick"], 1)

\* gallery.querySelectorAll('img.lazy:not(.loaded)')
notLoaded(d) == {e \in Imgs : ~d.img[e].loaded}

\* loadAll(): images.map(loadImage), then the await of Promise.allSettled
loadAll(d) ==
  LET images == notLoaded(d)
      d1 == [d EXCEPT !.img = [e \in Imgs |->
                        IF e \in images THEN loadImage(d.img[e], "all")
                        ELSE d.img[e]]]
      sel == {<<e, Len(d1.img[e].ops)>> : e \in images}
  IN [d1 EXCEPT !.batches = Append(@, [sel |-> sel, st |-> "pending"])]

---------------------------------------------------------------------------
(* The state after init(): the gallery's markup, then setupImages.         *)

NewImg(dl, ds, sk) ==
  [dataLoad |-> dl, dataSrc |-> ds, src |-> "", loaded |-> FALSE, skel |-> sk,
   onLoad |-> {}, onError |-> {}, ops |-> <<>>, commits |-> 0, fetch |-> FALSE,
   unarmed |-> FALSE]

NewBtn(has) ==
  [has |-> has, hidden |-> TRUE, disabled |-> FALSE, text |-> "idle",
   bound |-> FALSE]

\* The kinds of card the markup can hold: data-load unset or 'click' (a
\* declared 'scroll' reads the same through loadModeOf), data-src present or
\* not, a .load-now button or none.
Kinds == [dl : {"", "click"}, ds : {"", "a.jpg"}, hb : BOOLEAN]

\* A number for each kind.  Every handler treats the images alike, so a
\* gallery and its permutations behave alike: Init lists the cards by kind.
kindNo(k) ==
  (IF k.dl = "click" THEN 4 ELSE 0) + (IF k.ds # "" THEN 2 ELSE 0)
  + (IF k.hb THEN 1 ELSE 0)

\* The document before init(): no observer, mode 'scroll', nothing loaded.
\* Every image sits in a .skeleton wrapper, the case in which onLoad has a
\* wrapper to mark.
Markup ==
  { [img |-> [e \in Imgs |-> NewImg(c[e].dl, c[e].ds, "pending")],
     btn |-> [e \in Imgs |-> NewBtn(c[e].hb)],
     io |-> 0, observers |-> <<>>, currentMode |-> "scroll",
     modeLabel |-> "", batches |-> <<>>] :
      c \in {f \in [Imgs -> Kinds] :
               \A e \in Imgs : e < NumImgs => kindNo(f[e]) <= kindNo(f[e + 1])} }

Init ==
  \E m \in Markup :
    LET d == setupImages(m, 1)
    IN /\ img = d.img
       /\ btn = d.btn
       /\ io = d.io
       /\ observers = d.observers
       /\ currentMode = d.currentMode
       /\ modeLabel = d.modeLabel
       /\ batches = d.batches

---------------------------------------------------------------------------
(* Events.                                                                 *)

TotalLoads(d) ==
  LET RECURSIVE sum(_)
      sum(e) == IF e > NumImgs THEN 0 ELSE Len(d.img[e].ops) + sum(e + 1)
  IN sum(1)

\* A click on a card's button: it is shown, enabled and has the listener.
Click(e) ==
  /\ btn[e].has /\ btn[e].bound /\ ~btn[e].hidden /\ ~btn[e].disabled
  /\ TotalLoads(Doc) < MaxLoads
  /\ Apply(reactions(Doc, btnClick(Doc, e)))

\* The observer reports target e as intersecting.
Intersect(e) ==
  /\ io # 0
  /\ observers[io][e] > 0
  /\ TotalLoads(Doc) < MaxLoads
  /\ Apply(reactions(Doc, ioCallback(Doc, e)))

\* The browser ends the fetch of image e with a load or an error event.
Signal(e, ev) ==
  /\ img[e].fetch
  /\ Apply(reactions(Doc, [Doc EXCEPT !.img[e] = fire(@, ev)]))

\* A change of the mode checkbox.
ToggleMode(isScroll) ==
  /\ Len(observers) < MaxObservers \/ io # 0 \/ ~isScroll
  /\ Apply(toggleMode(Doc, isScroll))

\* A click on loadAllBtn.
LoadAll ==
  /\ Len(batches) < MaxLoadAll
  /\ TotalLoads(Doc) + Cardinality(notLoaded(Doc)) <= MaxLoads
  /\ Apply(reactions(Doc, loadAll(Doc)))

\* A click on disconnectObserverBtn.
Disconnect ==
  /\ io # 0
  /\ Apply(disconnect(Doc))

Next ==
  \/ \E e \in Imgs : Click(e)
  \/ \E e \in Imgs : Intersect(e)
  \/ \E e \in Imgs : \E ev \in {"load", "error"} : Signal(e, ev)
  \/ \E b \in BOOLEAN : ToggleMode(b)
  \/ LoadAll
  \/ Disconnect

Spec == Init /\ [][Next]_vars

---------------------------------------------------------------------------
(* The vocabulary of the specification, read off the document.             *)

\* Element e is in the watch set of document d's live scheduler.
WatchedIn(d, e) == d.io # 0 /\ d.observers[d.io][e] > 0

Watched(e) == WatchedIn(Doc, e)

\* Explicit or Proximity: the policy the code reads at each use.
Policy(e) == IF loadModeOf(img[e]) = "click" THEN "Explicit" ELSE "Proximity"

\* The calls of loadImage on el whose listeners are still attached.
InFlightOf(el) == el.onLoad \cup el.onError

InFlight(e) == InFlightOf(img[e])

\* The load state of the specification's data model.
LoadStateOf(el) ==
  IF el.loaded THEN "Loaded"
  ELSE IF InFlightOf(el) # {} THEN "Loading"
  ELSE IF \E k \in DOMAIN el.ops : el.ops[k].st = "rejected" THEN "Failed"
  ELSE "Unloaded"

LoadState(e) == LoadStateOf(img[e])

---------------------------------------------------------------------------
\* C1: a loadImage call on an element whose earlier load is still in flight
\* neither commits again nor registers a second pair of listeners: in every
\* reachable state at most one commit + listener cycle is active per element.
C1_OneCycleInFlight ==
  \A e \in Imgs :
    img[e].fetch =>
      /\ Cardinality(img[e].onLoad) <= 1
      /\ Cardinality(img[e].onError) <= 1
      /\ Cardinality({k \in DOMAIN img[e].ops : img[e].ops[k].st = "pending"}) <= 1

\* C2: two loadImage calls on one element that are pending together settle
\* in the same step with the same outcome.
C2_SameOutcome ==
  [][\A e \in Imgs : \A i, j \in DOMAIN img[e].ops :
       (img[e].ops[i].st = "pending" /\ img[e].ops[j].st = "pending")
         => img'[e].ops[i].st = img'[e].ops[j].st]_vars

\* Two calls made before any signal, both settled (the second was made
\* before the first resolved, or it would have returned early).
C2_Witness ==
  \E e \in Imgs : \E i, j \in DOMAIN img[e].ops :
    /\ i < j
    /\ ~img[e].ops[i].imm /\ ~img[e].ops[j].imm
    /\ img[e].ops[i].st = "resolved" /\ img[e].ops[j].st = "resolved"

\* A step in which loadImage was called on e.
LoadCalled(e) == Len(img'[e].ops) > Len(img[e].ops)

\* C3: a loadImage call on an element that carries 'loaded', whoever makes
\* it, returns a resolved promise and changes nothing else of the element:
\* no commit, no listener, no attribute, and it stays loaded.
C3_LoadedIsNoOp ==
  [][\A e \in Imgs :
       (img[e].loaded /\ LoadCalled(e))
         => /\ Len(img'[e].ops) = Len(img[e].ops) + 1
            /\ img'[e].ops[Len(img'[e].ops)].st = "resolved"
            /\ SubSeq(img'[e].ops, 1, Len(img[e].ops)) = img[e].ops
            /\ img'[e] = [img[e] EXCEPT !.ops = img'[e].ops]
            /\ LoadState(e)' = "Loaded"]_vars

\* A loaded element on which loadImage was called again.
C3_Witness ==
  \E e \in Imgs : \E k \in DOMAIN img[e].ops :
    /\ img[e].ops[k].imm
    /\ img[e].loaded /\ img[e].commits = 1 /\ InFlight(e) = {}

\* C4 as stated: in every reachable state the policy fixes one delivery
\* path: Proximity means watched with the affordance hidden, Explicit means
\* not watched with the affordance visible.
C4_ExactlyOnePath ==
  \A e \in Imgs :
    /\ Policy(e) = "Proximity" => Watched(e) /\ (btn[e].has => btn[e].hidden)
    /\ Policy(e) = "Explicit" => ~Watched(e) /\ (btn[e].has => ~btn[e].hidden)

\* The delivery path of the elements that are not loaded.
PathOfUnloaded ==
  \A e \in Imgs :
    ~img[e].loaded =>
      /\ Policy(e) = "Explicit" => ~Watched(e) /\ (btn[e].has => ~btn[e].hidden)
      /\ Policy(e) = "Proximity" => (btn[e].has => btn[e].hidden)

\* C4, amended: for every element that is not loaded, Explicit means not
\* watched with the affordance visible and Proximity means the affordance
\* hidden; a Proximity element is watched after setupImages and after
\* toggleMode(true), and leaves the watch set only by its own proximity
\* trigger, by disconnect or by toggleMode(false).
C4_PathOfUnloaded ==
  /\ \A e \in Imgs : Policy(e) = "Proximity" => Watched(e)
  /\ []PathOfUnloaded
  /\ [](\A e \in Imgs :
          ~img[e].loaded => WatchedIn(toggleMode(Doc, TRUE), e))
  /\ [][\A e \in Imgs :
          (Watched(e) /\ ~Watched(e)') =>
             Intersect(e) \/ Disconnect \/ ToggleMode(FALSE)]_vars

\* An unloaded Proximity element that has left the watch set, beside an
\* unloaded Explicit element with its button shown.
C4_Witness ==
  /\ \E e \in Imgs : ~img[e].loaded /\ Policy(e) = "Proximity" /\ ~Watched(e)
                     /\ btn[e].has /\ btn[e].hidden /\ img[e].ops # <<>>
  /\ \E e \in Imgs : ~img[e].loaded /\ Policy(e) = "Explicit"
                     /\ btn[e].has /\ ~btn[e].hidden

C6_ToggleIdempotent ==
  \A b \in BOOLEAN :
    LET once == toggleMode(Doc, b)
        twice == toggleMode(once, b)
    IN /\ twice.io = once.io
       /\ twice.observers = once.observers
       /\ \A e \in Imgs :
            /\ twice.img[e].dataLoad = once.img[e].dataLoad
            /\ twice.btn[e].hidden = once.btn[e].hidden
       /\ \A i \in DOMAIN twice.observers : \A e \in Imgs :
            twice.observers[i][e] <= 1

\* The state toggleMode(true) leaves: watching an unloaded element, and
\* unchanged by the same call again.
C6_Witness ==
  /\ modeLabel = "auto"
  /\ toggleMode(Doc, TRUE) = Doc
  /\ \E e \in Imgs : ~img[e].loaded /\ Watched(e) /\ img[e].dataLoad = "scroll"

\* The promise of batch member p = <<element, call>> in the next state.
MemberAfter(p) == img'[p[1]].ops[p[2]]

\* C7: a loadAll call selects the N elements that are not loaded, completes
\* only when all N promises have settled, and at completion the elements
\* whose promise resolved are loaded and those whose promise rejected (and
\* that no later call loaded) are not: exactly N - M are loaded.
C7_CompletesAfterAllSettle ==
  /\ [](\A i \in DOMAIN batches :
          batches[i].st = "fulfilled" <=>
            \A p \in batches[i].sel : img[p[1]].ops[p[2]].st # "pending")
  /\ [][/\ LoadAll =>
             LET new == batches'[Len(batches')]
             IN /\ {p[1] : p \in new.sel} = notLoaded(Doc)
                /\ Cardinality(new.sel) = Cardinality(notLoaded(Doc))
        /\ \A i \in DOMAIN batches' :
             ((i \notin DOMAIN batches \/ batches[i].st = "pending")
                /\ batches'[i].st # "pending")
               => LET sel == batches'[i].sel
                      ok == {p \in sel : MemberAfter(p).st = "resolved"}
                      retried == {p \in sel :
                                    \E k \in DOMAIN img'[p[1]].ops :
                                      k > p[2] /\ img'[p[1]].ops[k].st = "resolved"}
                  IN /\ \A p \in sel : MemberAfter(p).st # "pending"
                     /\ \A p \in ok : img'[p[1]].loaded
                     /\ \A p \in sel \ (ok \cup retried) : ~img'[p[1]].loaded
                     /\ retried = {} =>
                          Cardinality({p \in sel : img'[p[1]].loaded})
                            = Cardinality(ok)]_vars

\* loadAll over N = 2 elements completed with M = 1 failure: one element
\* loaded, the other not.
C7_Witness ==
  \E i \in DOMAIN batches :
    /\ batches[i].st = "fulfilled"
    /\ Cardinality(batches[i].sel) = 2
    /\ \E p, q \in batches[i].sel :
         /\ img[p[1]].ops[p[2]].st = "resolved" /\ img[p[1]].loaded
         /\ img[q[1]].ops[q[2]].st = "rejected" /\ ~img[q[1]].loaded

\* C8: the aggregate of loadAll never fails, every selected element is
\* committed with its listeners attached whatever happens to the others,
\* and after one member has failed the load event of another member still
\* resolves it and marks it loaded.
C8_FailureIsolated ==
  /\ [](\A i \in DOMAIN batches : batches[i].st \in {"pending", "fulfilled"})
  /\ [][/\ LoadAll =>
             \A e \in notLoaded(Doc) :
               /\ img'[e].commits = img[e].commits + 1
               /\ Len(img'[e].ops) \in img'[e].onLoad \cap img'[e].onError
               /\ img[e].dataSrc # "" => img'[e].fetch
        /\ \A i \in DOMAIN batches : \A p, q \in batches[i].sel :
             (/\ img[p[1]].ops[p[2]].st = "rejected"
              /\ img[q[1]].ops[q[2]].st = "pending"
              /\ Signal(q[1], "load"))
               => /\ MemberAfter(q).st = "resolved"
                  /\ img'[q[1]].loaded
                  /\ batches'[i].st # "rejected"]_vars

\* A completed loadAll one of whose members failed and another loaded.
C8_Witness ==
  \E i \in DOMAIN batches : \E p, q \in batches[i].sel :
    /\ batches[i].st = "fulfilled"
    /\ img[p[1]].ops[p[2]].st = "rejected"
    /\ img[q[1]].ops[q[2]].st = "resolved" /\ ~img[q[1]].ops[q[2]].imm
    /\ img[q[1]].loaded /\ img[q[1]].src = "a.jpg"

\* The document after the load or error event ev of image e.
AfterSignal(e, ev) == reactions(Doc, [Doc EXCEPT !.img[e] = fire(@, ev)])

\* C9: disconnect changes no image, button or loadAll (load state,
\* listeners and pending promises stay), an in-flight fetch stays in
\* flight, and with the observer disconnected the load event still
\* resolves and marks loaded, the error event still rejects.
C9_DisconnectLeavesLoads ==
  /\ \A e \in Imgs : (InFlight(e) # {} /\ img[e].dataSrc # "") => img[e].fetch
  /\ LET d == disconnect(Doc)
     IN /\ d.io = 0
        /\ d.img = img /\ d.btn = btn /\ d.batches = batches
        /\ \A e \in Imgs : LoadStateOf(d.img[e]) = LoadState(e)
  /\ \A e \in Imgs : \A ev \in {"load", "error"} :
       (io = 0 /\ img[e].fetch) =>
         LET a == AfterSignal(e, ev).img[e]
         IN /\ InFlightOf(a) = {}
            /\ \A k \in InFlight(e) :
                 a.ops[k].st = IF ev = "load" THEN "resolved" ELSE "rejected"
            /\ InFlight(e) # {} =>
                 LoadStateOf(a) = IF ev = "load" THEN "Loaded" ELSE "Failed"

\* The observer started a load and was disconnected while the fetch is in
\* flight: listeners and promise are still in place.
C9_Witness ==
  /\ io = 0
  /\ \E e \in Imgs : \E k \in DOMAIN img[e].ops :
       /\ img[e].ops[k].by = "io" /\ img[e].ops[k].st = "pending"
       /\ k \in img[e].onLoad /\ k \in img[e].onError
       /\ img[e].fetch /\ LoadState(e) = "Loading"

\* C10: io is null or the one live observer; an observer is constructed
\* only when io is null and becomes io; while io is set every watch reuses
\* it; disconnect empties its targets and nulls io, discarded observers
\* watch nothing, and the next observer starts with exactly the elements
\* the creating call watches.
C10_LazySingleton ==
  /\ (io # 0) <=> (\E e \in Imgs : Policy(e) = "Proximity")
  /\ [](/\ io \in 0..Len(observers)
        /\ \A i \in DOMAIN observers : i # io => observers[i] = NoTargets
        /\ \A i \in DOMAIN observers : \A e \in Imgs : observers[i][e] <= 1)
  /\ [][/\ Len(observers') # Len(observers) =>
             /\ io = 0
             /\ Len(observers') = Len(observers) + 1
             /\ io' = Len(observers')
        /\ (io # 0 /\ ~Disconnect) =>
             /\ io' = io
             /\ Len(observers') = Len(observers)
        /\ Disconnect => (io' = 0 /\ observers'[io] = NoTargets)
        /\ (io = 0 /\ io' # 0) =>
             /\ ToggleMode(TRUE)
             /\ \A e \in Imgs : Watched(e)' <=> ~img[e].loaded]_vars

\* A second observer, created after the first was disconnected, is live
\* and watches; the first watches nothing.
C10_Witness ==
  /\ Len(observers) = 2 /\ io = 2
  /\ observers[1] = NoTargets
  /\ \E e \in Imgs : Watched(e)

---------------------------------------------------------------------------
\* The load state of every element changes only along the edges in allowed.
MovesOnlyAlong(allowed) ==
  \A e \in Imgs :
    LoadState(e)' # LoadState(e) => <<LoadState(e), LoadState(e)'>> \in allowed

\* C11 as stated: the load state changes only Unloaded -> Loading ->
\* {Loaded, Failed}; nothing moves an element out of Failed or Loaded.
C11_FailedAndLoadedTerminal ==
  [][MovesOnlyAlong({<<"Unloaded", "Loading">>, <<"Loading", "Loaded">>,
                     <<"Loading", "Failed">>})]_vars

\* C11: the load state changes only Unloaded -> Loading -> {Loaded, Failed}
\* and Failed -> Loading, the last only by a new loadImage call on the
\* element; Loaded is terminal, and a Loaded element keeps its class.
C11_LoadedTerminal ==
  /\ (\A e \in Imgs : LoadState(e) = "Unloaded")
  /\ [][/\ MovesOnlyAlong({<<"Unloaded", "Loading">>, <<"Loading", "Loaded">>,
                           <<"Loading", "Failed">>, <<"Failed", "Loading">>})
        /\ \A e \in Imgs :
             /\ (LoadState(e) = "Failed" /\ LoadState(e)' # "Failed")
                  => (LoadCalled(e) /\ img'[e].commits = img[e].commits + 1)
             /\ img[e].loaded => img'[e].loaded]_vars

\* An element failed, was loaded again and is now Loaded.
C11_Witness ==
  \E e \in Imgs :
    /\ LoadState(e) = "Loaded"
    /\ Len(img[e].ops) = 2
    /\ img[e].ops[1].st = "rejected"
    /\ img[e].ops[2].st = "resolved" /\ ~img[e].ops[2].imm

---------------------------------------------------------------------------
\* The calls of loadImage the button of card e made, and the pending ones.
BtnOps(e) == {k \in DOMAIN img[e].ops : img[e].ops[k].by = "btn"}

BtnPending(e) == {k \in BtnOps(e) : img[e].ops[k].st = "pending"}

\* C12 for the buttons setupImages gave the listener: such a button is
\* enabled with its first label
\* until it is clicked, and shown while its image is Explicit and not
\* loaded; a click disables it, labels it 'loading' and calls loadImage; the
\* load event labels it 'done' and it stays disabled for good; the error
\* event labels it 'retry' and enables it with the image Failed, and the
\* next click starts a new load with a new commit.
C12_ButtonCycle ==
  /\ [](\A e \in Imgs :
          /\ (btn[e].bound /\ BtnOps(e) = {})
               => (~btn[e].disabled /\ btn[e].text = "idle")
          /\ (btn[e].bound /\ Policy(e) = "Explicit" /\ ~img[e].loaded)
               => ~btn[e].hidden
          /\ BtnPending(e) # {} => (btn[e].disabled /\ btn[e].text = "loading")
          /\ btn[e].text = "done" => (btn[e].disabled /\ img[e].loaded)
          /\ btn[e].text = "retry" => (btn[e].bound /\ ~btn[e].disabled))
  /\ [][\A e \in Imgs :
          /\ Click(e) =>
               /\ LoadCalled(e)
               /\ btn'[e].disabled
               /\ img[e].loaded => btn'[e].text = "done"
               /\ ~img[e].loaded =>
                    /\ btn'[e].text = "loading"
                    /\ LoadState(e)' = "Loading"
                    /\ img'[e].commits = img[e].commits + 1
          /\ (Signal(e, "load") /\ BtnPending(e) # {}) =>
               /\ btn'[e].text = "done" /\ btn'[e].disabled
               /\ LoadState(e)' = "Loaded"
          /\ (Signal(e, "error") /\ BtnPending(e) # {}) =>
               /\ btn'[e].text = "retry" /\ ~btn'[e].disabled
               /\ LoadState(e)' = "Failed"
          /\ btn[e].text = "done" => btn'[e].text = "done"]_vars

\* C12: every button of a not yet loaded Explicit image is shown, is enabled
\* until its first activation, and a click on it while enabled disables it,
\* labels it 'loading' and calls loadImage; its load and error events then
\* label it 'done' (disabled for good) or 'retry' (enabled, image Failed,
\* the next click loads again).
C12_ExplicitButtonCycle ==
  /\ [](\A e \in Imgs :
          (btn[e].has /\ Policy(e) = "Explicit" /\ ~img[e].loaded) =>
            /\ ~btn[e].hidden
            /\ BtnOps(e) = {} => ~btn[e].disabled
            /\ ~btn[e].disabled =>
                 LET d == reactions(Doc, clickEvent(Doc, e))
                 IN /\ d.btn[e].disabled /\ d.btn[e].text = "loading"
                    /\ Len(d.img[e].ops) = Len(img[e].ops) + 1)
  /\ C12_ButtonCycle

\* The button's load failed, the button was clicked again and the second
\* load is in flight.
C12_Witness ==
  \E e \in Imgs :
    /\ Policy(e) = "Explicit" /\ ~btn[e].hidden
    /\ Len(img[e].ops) = 2
    /\ img[e].ops[1].by = "btn" /\ img[e].ops[1].st = "rejected"
    /\ img[e].ops[2].by = "btn" /\ img[e].ops[2].st = "pending"
    /\ btn[e].disabled /\ btn[e].text = "loading"
    /\ img[e].commits = 2

---------------------------------------------------------------------------
\* The browser ends every fetch it started: an image whose fetch is in
\* flight gets its load or its error event.
FairSpec ==
  Spec /\ \A e \in Imgs : WF_vars(\E ev \in {"load", "error"} : Signal(e, ev))

\* The calls of loadImage the observer's callback made on e, still pending.
IoPending(e) ==
  {k \in DOMAIN img[e].ops :
     img[e].ops[k].by = "io" /\ img[e].ops[k].st = "pending"}

\* C13: an intersection entry for an observed scroll-mode image with data-src
\* copies data-src into src (and starts the fetch when the image is not yet
\* loaded); the load event then resolves the call, marks the image loaded
\* and its .skeleton wrapper loaded; and every such call is followed by the
\* image being loaded, unless the error event ends the fetch and rejects
\* the call instead.
C13_ProximityLoads ==
  /\ [](\A e \in Imgs :
          (Watched(e) /\ Policy(e) = "Proximity" /\ img[e].dataSrc # "") =>
            LET a == reactions(Doc, ioCallback(Doc, e)).img[e]
            IN /\ a.src = img[e].dataSrc
               /\ Len(a.ops) = Len(img[e].ops) + 1
               /\ ~img[e].loaded =>
                    (a.fetch /\ a.commits = img[e].commits + 1
                       /\ LoadStateOf(a) = "Loading"))
  /\ [][\A e \in Imgs :
          (Signal(e, "load") /\ IoPending(e) # {}) =>
            /\ LoadState(e)' = "Loaded"
            /\ img'[e].skel = "loaded"
            /\ \A k \in IoPending(e) : img'[e].ops[k].st = "resolved"]_vars
  /\ \A e \in Imgs :
       (IoPending(e) # {} /\ img[e].dataSrc # "")
         ~> /\ IoPending(e) = {}
            /\ \/ LoadState(e) = "Loaded"
               \/ \E k \in DOMAIN img[e].ops :
                    img[e].ops[k].by = "io" /\ img[e].ops[k].st = "rejected"

\* The observer's call loaded the image: src is the declared source, image
\* and wrapper are marked.
C13_Witness ==
  \E e \in Imgs : \E k \in DOMAIN img[e].ops :
    /\ img[e].ops[k].by = "io" /\ img[e].ops[k].st = "resolved"
    /\ ~img[e].ops[k].imm
    /\ img[e].src = "a.jpg" /\ img[e].loaded /\ img[e].skel = "loaded"
    /\ ~Watched(e)

---------------------------------------------------------------------------
\* The loadImage calls on e that wait for the image's event.
Pending(e) == {k \in DOMAIN img[e].ops : img[e].ops[k].st = "pending"}

\* C14: every loadImage call on a not yet loaded image attaches its load and
\* its error listener before applyDataAttributes writes the attributes that
\* start the fetch, so whenever the browser can deliver the load or error
\* event of a fetch, every pending call has both of its listeners attached.
C14_ListenersBeforeCommit ==
  \A e \in Imgs :
    /\ ~img[e].unarmed
    /\ img[e].fetch =>
         /\ Pending(e) # {}
         /\ \A k \in Pending(e) : k \in img[e].onLoad /\ k \in img[e].onError

\* A fetch is in flight for a call that committed with both listeners on.
C14_Witness ==
  \E e \in Imgs :
    /\ img[e].fetch /\ img[e].commits = 1 /\ ~img[e].unarmed
    /\ Pending(e) = {1} /\ img[e].onLoad = {1} /\ img[e].onError = {1}

---------------------------------------------------------------------------
\* C15: whichever of the load and the error event is dispatched first, it
\* removes both listeners of every call it reaches and settles each of
\* those calls once (a call settled earlier keeps its outcome); the other
\* event dispatched afterwards runs no handler; and in every state the
\* listeners on an image are exactly those of its pending calls, so an
\* image with no pending call has none.
C15_TeardownOnce ==
  \A e \in Imgs :
    /\ img[e].onLoad = Pending(e) /\ img[e].onError = Pending(e)
    /\ img[e].loaded => InFlight(e) = {}
    /\ \A ev \in {"load", "error"} : \A other \in {"load", "error"} :
         img[e].fetch =>
           LET a == fire(img[e], ev)
           IN /\ a.onLoad = {} /\ a.onError = {}
              /\ \A k \in DOMAIN a.ops :
                   a.ops[k].st = IF k \in Pending(e)
                                 THEN (IF ev = "load" THEN "resolved" ELSE "rejected")
                                 ELSE img[e].ops[k].st
              /\ fire(a, other) = a

\* Two calls were pending on one image; one event settled both and no
\* listener is left.
C15_Witness ==
  \E e \in Imgs :
    /\ Len(img[e].ops) = 2
    /\ \A k \in {1, 2} : img[e].ops[k].st # "pending" /\ ~img[e].ops[k].imm
    /\ img[e].onLoad = {} /\ img[e].onError = {} /\ ~img[e].fetch

---------------------------------------------------------------------------
\* The loadImage calls the observer's callback made on e.
IoOps(e) == {k \in DOMAIN img[e].ops : img[e].ops[k].by = "io"}

\* C16: over a whole run the observer's callback calls loadImage at most
\* once per image, whatever toggleMode, loadAll and disconnect do in
\* between.
C16_OneTriggerPerImage ==
  \A e \in Imgs : Cardinality(IoOps(e)) <= 1

\* C16 per registration: each call of loadImage by the observer's callback
\* takes its image out of the observer's targets, and an image comes back among the targets
\* only by toggleMode(true) while it is not loaded: between two calls by the
\* callback on one image there is a toggleMode(true) that observed it again.
C16_OneTriggerPerWatch ==
  [][\A e \in Imgs :
       /\ IoOps(e)' # IoOps(e) =>
            /\ Intersect(e)
            /\ Cardinality(IoOps(e)') = Cardinality(IoOps(e)) + 1
            /\ Watched(e) /\ ~Watched(e)'
       /\ (~Watched(e) /\ Watched(e)') =>
            (ToggleMode(TRUE) /\ ~img[e].loaded)]_vars

\* The callback called loadImage on an image whose earlier call by the
\* callback is still pending: the image was observed again in between.
C16_Witness ==
  \E e \in Imgs :
    /\ Cardinality(IoOps(e)) = 2 /\ IoOps(e) \subseteq Pending(e)
    /\ img[e].commits = 2 /\ ~Watched(e)

---------------------------------------------------------------------------
\* C17: an intersection entry for an observed image whose data-load is not
\* 'scroll' changes nothing: no loadImage call, no commit, the same targets;
\* and the observer's callback calls loadImage only on an image that is in
\* scroll mode when the entry is delivered.
C17_ExplicitIgnored ==
  /\ [](\A e \in Imgs :
          (Watched(e) /\ Policy(e) = "Explicit") =>
            LET d == reactions(Doc, ioCallback(Doc, e))
            IN /\ d.img = img /\ d.btn = btn /\ d.batches = batches
               /\ d.io = io /\ d.observers = observers
               /\ WatchedIn(d, e))
  /\ [][\A e \in Imgs :
          (IoOps(e)' # IoOps(e) \/ (Intersect(e) /\ img'[e].commits # img[e].commits))
            => Policy(e) = "Proximity"]_vars

\* An image is among the observer's targets and in click mode: it was
\* loaded while observed, and toggleMode(false) then skipped it.
C17_Witness ==
  \E e \in Imgs :
    /\ Watched(e) /\ Policy(e) = "Explicit"
    /\ img[e].loaded /\ IoOps(e) = {}

---------------------------------------------------------------------------
\* C18: the error event of an image's fetch rejects every pending call,
\* leaves the image Failed (not loaded, its .skeleton wrapper unmarked),
\* writes no attribute and starts no fetch, and changes nothing of the
\* observer; every commit belongs to a loadImage call, so there is no commit
\* again without a new call.  The observer's callback has unobserved the
\* image when it returns, before any outcome, and a rejected call of the
\* callback changes no button and no target.
C18_FailureOutcome ==
  \A e \in Imgs :
    /\ img[e].commits = Cardinality({k \in DOMAIN img[e].ops : ~img[e].ops[k].imm})
    /\ (Watched(e) /\ Policy(e) = "Proximity")
         => ~WatchedIn(reactions(Doc, ioCallback(Doc, e)), e)
    /\ img[e].fetch =>
         LET d == AfterSignal(e, "error")
             a == d.img[e]
         IN /\ LoadStateOf(a) = "Failed"
            /\ ~a.loaded /\ a.skel = "pending"
            /\ \A k \in DOMAIN a.ops :
                 a.ops[k].st = IF k \in Pending(e) THEN "rejected"
                               ELSE img[e].ops[k].st
            /\ a.commits = img[e].commits /\ a.src = img[e].src /\ ~a.fetch
            /\ a.onLoad = {} /\ a.onError = {}
            /\ d.io = io /\ d.observers = observers
            /\ BtnPending(e) = {} => d.btn = btn
            /\ \A o \in Imgs : o # e => d.img[o] = img[o]

\* The callback's load failed: the image is Failed, unmarked, no longer
\* observed, and nothing was committed after the failure.
C18_Witness ==
  \E e \in Imgs :
    /\ Len(img[e].ops) = 1
    /\ img[e].ops[1].by = "io" /\ img[e].ops[1].st = "rejected"
    /\ LoadState(e) = "Failed" /\ img[e].skel = "pending"
    /\ img[e].commits = 1 /\ ~img[e].fetch
    /\ io # 0 /\ ~Watched(e)

---------------------------------------------------------------------------
\* C19: in every state, whatever toggleMode calls led to it, the shown
\* button of a not yet loaded click-mode image has the click listener, and
\* a click on it while it is enabled calls loadImage on the image.
C19_ShownButtonBound ==
  \A e \in Imgs :
    (~img[e].loaded /\ Policy(e) = "Explicit" /\ btn[e].has /\ ~btn[e].hidden) =>
      /\ btn[e].bound
      /\ ~btn[e].disabled =>
           Len(clickEvent(Doc, e).img[e].ops) = Len(img[e].ops) + 1

\* An image registered in scroll mode was switched to click mode: its
\* button is shown and enabled and has no listener.
C19_Witness ==
  \E e \in Imgs :
    /\ currentMode = "click" /\ Policy(e) = "Explicit" /\ ~img[e].loaded
    /\ btn[e].has /\ ~btn[e].hidden /\ ~btn[e].disabled
    /\ ~btn[e].bound
    /\ clickEvent(Doc, e) = Doc

---------------------------------------------------------------------------
\* C20: the browser delivering the load or error event of every fetch that
\* is started, every loadAll call completes: its Promise.allSettled is
\* eventually fulfilled, whatever images the gallery holds, those with no
\* data-src included.
C20_LoadAllCompletes ==
  \A i \in 1..MaxLoadAll :
    (Len(batches) >= i) ~> (Len(batches) >= i /\ batches[i].st = "fulfilled")

\* A loadAll waits on a call for an image with no data-src: no fetch was
\* started for it, no event is due, and the call's listeners wait.
C20_Witness ==
  \E i \in DOMAIN batches : \E p \in batches[i].sel :
    /\ batches[i].st = "pending"
    /\ img[p[1]].dataSrc = "" /\ ~img[p[1]].fetch
    /\ img[p[1]].ops[p[2]].st = "pending"
    /\ \A e \in Imgs : ~img[e].fetch

=============================================================================
